---- MODULE Spec2Model ----
(***************************************************************************)
(* Sanctuary MCP Bridge: the SQLite persistence layer (db.py), the record  *)
(* schemas (schemas.py) and the insight engine (patterns.py).              *)
(*                                                                         *)
(* Spec          the store: callers running init_db, add_interaction,      *)
(*               add_ritual, get_interactions and get_rituals against one  *)
(*               database file, statement by statement.                    *)
(* SpecInsights  the pure functions of patterns.py applied to bounded      *)
(*               input collections.                                        *)
(***************************************************************************)
EXTENDS Integers, Sequences, FiniteSets, TLC

VARIABLES
    schema,        \* names of the tables that exist in the database file
    interactions,  \* committed rows of table interactions, in rowid order
    rituals,       \* committed rows of table rituals, in rowid order
    lock,          \* the callers holding SQLite's write lock: none or one
    pc,            \* per caller: the statement it is about to run
    arg,           \* per caller: the record its INSERT has bound, if any
    conn,          \* per caller: whether its connection is open
    pending,       \* per caller: the row inserted but not yet committed
    ret,           \* the outcome of the call the last step finished, if any
    logged,        \* history: the records whose add call returned an id
    in_interactions, \* SpecInsights: the interactions handed to patterns.py
    in_rituals,      \* SpecInsights: the rituals handed to patterns.py
    out              \* SpecInsights: the function applied and what it returned

vars == <<schema, interactions, rituals, lock, pc, arg, conn, pending, ret,
          logged, in_interactions, in_rituals, out>>

storeVars == <<schema, interactions, rituals, lock, pc, arg, conn, pending,
               ret, logged>>

insightVars == <<in_interactions, in_rituals, out>>

(***************************************************************************)
(* Bounds of the model.                                                    *)
(***************************************************************************)
MaxRows == 2

\* SpecInsights: records in the two collections together, emotions per record.
MaxRecords == 2

MaxEmotions == 2

\* SpecEmotions: emotion entries per record.
MaxEntries == 3

\* The concurrent callers of the store.
Procs == {1, 2}

\* Python's None / SQL NULL for an optional text field.
None == "None"

Range(s) == {s[i] : i \in 1..Len(s)}

(***************************************************************************)
(* datetime: hour within one fixed day, microseconds, and an optional UTC  *)
(* offset in whole hours (aware = FALSE is a naive datetime, which the     *)
(* schema's documentation takes as UTC).                                   *)
(***************************************************************************)
DT(h, us, aware, off) == [hour |-> h, micro |-> us, aware |-> aware, off |-> off]

RECURSIVE Digits(_, _)
\* The decimal digits of n, zero padded to width w, as character codes.
Digits(n, w) ==
    IF w = 0 THEN <<>> ELSE Append(Digits(n \div 10, w - 1), 48 + (n % 10))

RECURSIVE Number(_)
\* The number a sequence of digit characters denotes.
Number(s) ==
    IF s = <<>> THEN 0
    ELSE 10 * Number(SubSeq(s, 1, Len(s) - 1)) + (s[Len(s)] - 48)

Abs(n) == IF n < 0 THEN 0 - n ELSE n

\* datetime.isoformat(): "2024-01-01THH:00:00[.ffffff][+HH:00]" as character
\* codes; the fraction is omitted when zero, the offset when naive.
isoformat(dt) ==
    <<50, 48, 50, 52, 45, 48, 49, 45, 48, 49, 84>>
    \o Digits(dt.hour, 2) \o <<58, 48, 48, 58, 48, 48>>
    \o (IF dt.micro # 0 THEN <<46>> \o Digits(dt.micro, 6) ELSE <<>>)
    \o (IF dt.aware
        THEN <<(IF dt.off < 0 THEN 45 ELSE 43)>> \o Digits(Abs(dt.off), 2)
             \o <<58, 48, 48>>
        ELSE <<>>)

\* datetime.fromisoformat(): parses the text isoformat() writes.
fromisoformat(s) ==
    LET rest == SubSeq(s, 20, Len(s))
        frac == rest # <<>> /\ rest[1] = 46
        tz == IF frac THEN SubSeq(rest, 8, Len(rest)) ELSE rest
        mag == IF tz = <<>> THEN 0 ELSE Number(SubSeq(tz, 2, 3))
    IN  DT(Number(SubSeq(s, 12, 13)),
           IF frac THEN Number(SubSeq(rest, 2, 7)) ELSE 0,
           tz # <<>>,
           IF tz # <<>> /\ tz[1] = 45 THEN 0 - mag ELSE mag)

Min(a, b) == IF a < b THEN a ELSE b

\* SQLite's comparison of two TEXT values (BINARY collation: bytewise, a
\* proper prefix sorting first), as used by "timestamp >= ?" and "<= ?".
TextLess(a, b) ==
    \E i \in 1..(Min(Len(a), Len(b)) + 1) :
        /\ \A j \in 1..(i - 1) : a[j] = b[j]
        /\ \/ i <= Len(a) /\ i <= Len(b) /\ a[i] < b[i]
           \/ i = Len(a) + 1 /\ Len(a) < Len(b)

TextLeq(a, b) == a = b \/ TextLess(a, b)

(***************************************************************************)
(* EmotionIntensity and the JSON text of the emotions column.  Intensity   *)
(* is held in hundredths.  A JSON text is its kind (the empty string, text *)
(* json.loads rejects, a JSON scalar, a non-empty JSON object, or a JSON   *)
(* array) and, for an array, its items; an item is a JSON object given by  *)
(* the keys it has and the values under "name" and "intensity".            *)
(***************************************************************************)
Emotion(n, i) == [name |-> n, intensity |-> i]

Item(ks, n, i) == [keys |-> ks, name |-> n, intensity |-> i]

Text(k, its) == [kind |-> k, items |-> its]

\* EmotionIntensity without the le=1.0 constraint on intensity.
EmotionIntensityNoUpperBound(item) ==
    /\ "name" \in item.keys
    /\ "intensity" \in item.keys
    /\ item.intensity >= 0

\* EmotionIntensity(**item): both fields required, intensity within [0, 1].
EmotionIntensityValid(item) ==
    /\ "name" \in item.keys
    /\ "intensity" \in item.keys
    /\ item.intensity >= 0
    /\ item.intensity <= 100

\* _serialize_emotions: json.dumps([e.dict() for e in emotions]).
_serialize_emotions(emotions) ==
    Text("array", [i \in 1..Len(emotions) |->
        Item({"name", "intensity"}, emotions[i].name, emotions[i].intensity)])

\* _deserialize_emotions: [] for empty text and for text json.loads rejects;
\* otherwise one EmotionIntensity per item of the parsed value, any error of
\* that construction propagating to the caller (raised names it, "" if none):
\* TypeError when the value is not a list of objects, pydantic's
\* ValidationError when an object is not a valid EmotionIntensity.
_deserialize_emotions(data) ==
    IF data.kind = "empty" \/ data.kind = "invalid"
    THEN [raised |-> "", value |-> <<>>]
    ELSE IF data.kind # "array"
    THEN [raised |-> "TypeError", value |-> <<>>]
    ELSE IF \E i \in 1..Len(data.items) : ~EmotionIntensityValid(data.items[i])
    THEN [raised |-> "ValidationError", value |-> <<>>]
    ELSE [raised |-> "",
          value |-> [i \in 1..Len(data.items) |->
                       Emotion(data.items[i].name, data.items[i].intensity)]]

(***************************************************************************)
(* The records of schemas.py and the rows of the two tables.               *)
(***************************************************************************)
FamiliarInteraction(ts, fid, ty, em, notes, model) ==
    [timestamp |-> ts, familiar_id |-> fid, interaction_type |-> ty,
     emotions |-> em, notes |-> notes, model_id |-> model]

RitualOutcome(ts, name, success, descr, em, notes, model) ==
    [timestamp |-> ts, ritual_name |-> name, success |-> success,
     outcome_description |-> descr, emotions |-> em, notes |-> notes,
     model_id |-> model]

\* NextId without the increment: the largest rowid the table holds.
NextIdReusingLast(rows) ==
    IF rows = <<>> THEN 1
    ELSE CHOOSE m \in {rows[i].id : i \in 1..Len(rows)} :
             \A i \in 1..Len(rows) : rows[i].id <= m

\* INTEGER PRIMARY KEY AUTOINCREMENT: one more than the largest rowid the
\* table has held (rows are never deleted, so the largest it holds).
NextId(rows) ==
    IF rows = <<>> THEN 1
    ELSE 1 + CHOOSE m \in {rows[i].id : i \in 1..Len(rows)} :
                 \A i \in 1..Len(rows) : rows[i].id <= m

\* The row add_interaction's INSERT writes for a record.
InteractionRow(id, r) ==
    [id |-> id,
     timestamp |-> isoformat(r.timestamp),
     familiar_id |-> r.familiar_id,
     interaction_type |-> r.interaction_type,
     emotions |-> _serialize_emotions(r.emotions),
     notes |-> r.notes,
     model_id |-> r.model_id]

\* The row add_ritual's INSERT writes for a record: success as 1 or 0.
RitualRow(id, r) ==
    [id |-> id,
     timestamp |-> isoformat(r.timestamp),
     ritual_name |-> r.ritual_name,
     success |-> IF r.success THEN 1 ELSE 0,
     outcome_description |-> r.outcome_description,
     emotions |-> _serialize_emotions(r.emotions),
     notes |-> r.notes,
     model_id |-> r.model_id]

\* The WHERE clause get_interactions and get_rituals build: each filter that
\* is given (model_id not None; start, end a one-element sequence) adds a
\* conjunct; the timestamp conjuncts compare the stored text with the
\* isoformat() text of the bound.
RowMatches(row, model_id, start, end) ==
    /\ model_id # None => (row.model_id # None /\ row.model_id = model_id)
    /\ start # <<>> => TextLeq(isoformat(start[1]), row.timestamp)
    /\ end # <<>> => TextLeq(row.timestamp, isoformat(end[1]))

RECURSIVE SelectWhereReversed(_, _, _, _)
\* SelectWhere scanning the table from its last row to its first.
SelectWhereReversed(rows, model_id, start, end) ==
    IF rows = <<>> THEN <<>>
    ELSE SelectWhereReversed(SubSeq(rows, 2, Len(rows)), model_id, start, end)
         \o (IF RowMatches(rows[1], model_id, start, end) THEN <<rows[1]>> ELSE <<>>)

RECURSIVE SelectWhere(_, _, _, _)
\* cur.execute(query, params).fetchall(): the matching rows in rowid order.
SelectWhere(rows, model_id, start, end) ==
    IF rows = <<>> THEN <<>>
    ELSE (IF RowMatches(rows[1], model_id, start, end) THEN <<rows[1]>> ELSE <<>>)
         \o SelectWhere(SubSeq(rows, 2, Len(rows)), model_id, start, end)

\* The FamiliarInteraction get_interactions builds from a row.
InteractionOfRow(row) ==
    FamiliarInteraction(fromisoformat(row.timestamp), row.familiar_id,
                        row.interaction_type,
                        _deserialize_emotions(row.emotions).value,
                        row.notes, row.model_id)

\* The RitualOutcome get_rituals builds from a row: success = bool(column).
RitualOfRow(row) ==
    RitualOutcome(fromisoformat(row.timestamp), row.ritual_name,
                  row.success # 0, row.outcome_description,
                  _deserialize_emotions(row.emotions).value,
                  row.notes, row.model_id)

\* The exception the row loop of get_interactions / get_rituals raises: that
\* of the first row whose emotions fail to deserialize, "" if none does.
FirstRaised(rows) ==
    IF \A i \in 1..Len(rows) : _deserialize_emotions(rows[i].emotions).raised = ""
    THEN ""
    ELSE LET k == CHOOSE i \in 1..Len(rows) :
                    /\ _deserialize_emotions(rows[i].emotions).raised # ""
                    /\ \A j \in 1..(i - 1) :
                         _deserialize_emotions(rows[j].emotions).raised = ""
         IN  _deserialize_emotions(rows[k].emotions).raised

(***************************************************************************)
(* patterns.py.  A dict (Counter, defaultdict) is the sequence of its      *)
(* items [k, v] in insertion order, which is the order Python iterates it  *)
(* in.  A float is an exact fraction in lowest terms.                      *)
(***************************************************************************)
RECURSIVE Gcd(_, _)
Gcd(a, b) == IF b = 0 THEN a ELSE Gcd(b, a % b)

\* The float n / d (d > 0).
Frac(n, d) == [num |-> n \div Gcd(n, d), den |-> d \div Gcd(n, d)]

FracLess(x, y) == x.num * y.den < y.num * x.den

Keys(d) == [i \in 1..Len(d) |-> d[i].k]

HasKey(d, k) == \E i \in 1..Len(d) : d[i].k = k

Lookup(d, k) == d[CHOOSE i \in 1..Len(d) : d[i].k = k].v

\* d[k] = v: in place when k is a key, appended otherwise.
Put(d, k, v) ==
    IF HasKey(d, k)
    THEN [i \in 1..Len(d) |-> IF d[i].k = k THEN [k |-> k, v |-> v] ELSE d[i]]
    ELSE Append(d, [k |-> k, v |-> v])

\* counter[k] += 1, a missing key counting as 0.
Incr(d, k) == Put(d, k, (IF HasKey(d, k) THEN Lookup(d, k) ELSE 0) + 1)

RECURSIVE CountEmotions(_, _)
\* "for e in rec.emotions: counter[e.name] += 1" over a list of emotions.
CountEmotions(counter, emotions) ==
    IF emotions = <<>> THEN counter
    ELSE CountEmotions(Incr(counter, emotions[1].name),
                       SubSeq(emotions, 2, Len(emotions)))

RECURSIVE CountRecords(_, _)
\* The outer loop: the emotions of every record, in order.
CountRecords(counter, records) ==
    IF records = <<>> THEN counter
    ELSE CountRecords(CountEmotions(counter, records[1].emotions),
                      SubSeq(records, 2, Len(records)))

\* aggregate_emotion_counts without its second loop: rituals not counted.
aggregate_interaction_emotions(inters, rits) == CountRecords(<<>>, inters)

aggregate_emotion_counts(inters, rits) ==
    CountRecords(CountRecords(<<>>, inters), rits)

RECURSIVE SuccessTally(_, _)
\* The loop of compute_success_rate: <<total, successes>>.
SuccessTally(tally, rits) ==
    IF rits = <<>> THEN tally
    ELSE SuccessTally(<<tally[1] + 1,
                        IF rits[1].success THEN tally[2] + 1 ELSE tally[2]>>,
                      SubSeq(rits, 2, Len(rits)))

\* compute_success_rate with the test inverted ("if not r.success"): the
\* fraction of failed rituals.
compute_failure_rate(rits) ==
    LET t == SuccessTally(<<0, 0>>, rits)
    IN  IF t[1] > 0 THEN Frac(t[1] - t[2], t[1]) ELSE Frac(0, 1)

compute_success_rate(rits) ==
    LET t == SuccessTally(<<0, 0>>, rits)
    IN  IF t[1] > 0 THEN Frac(t[2], t[1]) ELSE Frac(0, 1)

\* ModelKey with "is None" in place of falsiness: "" stays a key of its own.
ModelKeyIfNone(rec) == IF rec.model_id = None THEN "unknown" ELSE rec.model_id

\* key = rec.model_id or "unknown": None and "" are both falsy.
ModelKey(rec) ==
    IF rec.model_id = None \/ rec.model_id = "" THEN "unknown" ELSE rec.model_id

RECURSIVE CountEmotionsFor(_, _, _)
\* "for e in rec.emotions: result[key][e.name] += 1": the defaultdict makes
\* the entry of key when the first emotion of a record with that key is met.
CountEmotionsFor(result, key, emotions) ==
    IF emotions = <<>> THEN result
    ELSE CountEmotionsFor(
             Put(result, key,
                 Incr(IF HasKey(result, key) THEN Lookup(result, key) ELSE <<>>,
                      emotions[1].name)),
             key, SubSeq(emotions, 2, Len(emotions)))

RECURSIVE CountByModel(_, _)
CountByModel(result, records) ==
    IF records = <<>> THEN result
    ELSE CountByModel(
             CountEmotionsFor(result, ModelKey(records[1]), records[1].emotions),
             SubSeq(records, 2, Len(records)))

emotion_counts_by_model(inters, rits) ==
    CountByModel(CountByModel(<<>>, inters), rits)

RECURSIVE TallyEmotions(_, _, _)
\* "for e in r.emotions: stats[e.name][0 or 1] += 1" for one ritual; an
\* entry is <<success_count, failure_count>>.
TallyEmotions(stats, success, emotions) ==
    IF emotions = <<>> THEN stats
    ELSE LET name == emotions[1].name
             old == IF HasKey(stats, name) THEN Lookup(stats, name) ELSE <<0, 0>>
         IN  TallyEmotions(
                 Put(stats, name,
                     IF success THEN <<old[1] + 1, old[2]>>
                     ELSE <<old[1], old[2] + 1>>),
                 success, SubSeq(emotions, 2, Len(emotions)))

RECURSIVE TallyRituals(_, _)
TallyRituals(stats, rits) ==
    IF rits = <<>> THEN stats
    ELSE TallyRituals(TallyEmotions(stats, rits[1].success, rits[1].emotions),
                      SubSeq(rits, 2, Len(rits)))

ritual_success_by_emotion(rits) == TallyRituals(<<>>, rits)

\* SortedByCount by an unstable sort: equal counts come out in reverse order.
SortedByCountUnstable(d) ==
    LET n == Len(d)
        pos(i) == 1 + Cardinality({j \in 1..n : d[i].v < d[j].v})
                    + Cardinality({j \in (i + 1)..n : d[i].v = d[j].v})
    IN  [q \in 1..n |-> d[CHOOSE i \in 1..n : pos(i) = q]]

\* sorted(emotion_counts.items(), key=lambda x: x[1], reverse=True): the
\* items by count, largest first, equal counts keeping their order (the sort
\* is stable).
SortedByCount(d) ==
    LET n == Len(d)
        pos(i) == 1 + Cardinality({j \in 1..n : d[i].v < d[j].v})
                    + Cardinality({j \in 1..(i - 1) : d[i].v = d[j].v})
    IN  [q \in 1..n |-> d[CHOOSE i \in 1..n : pos(i) = q]]

\* sorted(success_ratio.items(), key=lambda x: x[1], reverse=True): the same
\* on float values.
SortedByRatio(d) ==
    LET n == Len(d)
        pos(i) == 1 + Cardinality({j \in 1..n : FracLess(d[i].v, d[j].v)})
                    + Cardinality({j \in 1..(i - 1) : d[i].v = d[j].v})
    IN  [q \in 1..n |-> d[CHOOSE i \in 1..n : pos(i) = q]]

\* s[:3]
Top3(s) == SubSeq(s, 1, Min(3, Len(s)))

\* MaxKey with ">=" in the scan: the last key of the largest value.
MaxKeyLast(d) ==
    d[CHOOSE i \in 1..Len(d) :
        /\ \A j \in 1..Len(d) : d[j].v <= d[i].v
        /\ \A j \in (i + 1)..Len(d) : d[j].v < d[i].v].k

\* max(d.items(), key=lambda x: x[1])[0]: the first key of the largest value.
MaxKey(d) ==
    d[CHOOSE i \in 1..Len(d) :
        /\ \A j \in 1..Len(d) : d[j].v <= d[i].v
        /\ \A j \in 1..(i - 1) : d[j].v < d[i].v].k

PatternInsight(description, metrics, related_entities) ==
    [description |-> description, metrics |-> metrics,
     related_entities |-> related_entities]

\* A description is the text of its f-string and the values formatted in.
Description(text, values) == [text |-> text, values |-> values]

\* "Overall emotion frequency": appended when emotion_counts is not empty.
EmotionFrequencyInsight(inters, rits) ==
    LET emotion_counts == aggregate_emotion_counts(inters, rits)
        top_emotions == Top3(SortedByCount(emotion_counts))
    IN  IF emotion_counts = <<>> THEN <<>>
        ELSE <<PatternInsight(
                 Description("most frequently experienced emotions", top_emotions),
                 [i \in 1..Len(emotion_counts) |->
                    [k |-> emotion_counts[i].k, v |-> Frac(emotion_counts[i].v, 1)]],
                 [k |-> "emotions", v |-> Keys(top_emotions)])>>

\* "Ritual success rate": always appended.
SuccessRateInsight(rits) ==
    LET success_rate == compute_success_rate(rits)
    IN  <<PatternInsight(
            Description("overall ritual success rate", <<success_rate, Len(rits)>>),
            <<[k |-> "success_rate", v |-> success_rate],
              [k |-> "ritual_count", v |-> Frac(Len(rits), 1)]>>,
            [k |-> "rituals", v |-> [i \in 1..Len(rits) |-> rits[i].ritual_name]])>>

\* ModelInsight with "len(by_model) >= 1" as its condition.
ModelInsightFromOne(inters, rits) ==
    LET by_model == emotion_counts_by_model(inters, rits)
        model_stats == [i \in 1..Len(by_model) |->
                          [k |-> by_model[i].k, v |-> Len(by_model[i].v)]]
    IN  IF Len(by_model) >= 1
        THEN <<PatternInsight(
                 Description("broadest range of emotions",
                             <<MaxKey(model_stats),
                               Lookup(model_stats, MaxKey(model_stats))>>),
                 [i \in 1..Len(by_model) |->
                    [k |-> by_model[i].k, v |-> Frac(Len(by_model[i].v), 1)]],
                 [k |-> "models", v |-> Keys(by_model)])>>
        ELSE <<>>

\* "Emotion by model": appended when by_model has more than one key.
ModelInsight(inters, rits) ==
    LET by_model == emotion_counts_by_model(inters, rits)
        model_stats == [i \in 1..Len(by_model) |->
                          [k |-> by_model[i].k, v |-> Len(by_model[i].v)]]
    IN  IF Len(by_model) > 1
        THEN <<PatternInsight(
                 Description("broadest range of emotions",
                             <<MaxKey(model_stats),
                               Lookup(model_stats, MaxKey(model_stats))>>),
                 [i \in 1..Len(by_model) |->
                    [k |-> by_model[i].k, v |-> Frac(Len(by_model[i].v), 1)]],
                 [k |-> "models", v |-> Keys(by_model)])>>
        ELSE <<>>

\* "Success by emotion": appended when success_by_emotion is not empty.
SuccessByEmotionInsight(rits) ==
    LET success_by_emotion == ritual_success_by_emotion(rits)
        success_ratio ==
            [i \in 1..Len(success_by_emotion) |->
               LET succ == success_by_emotion[i].v[1]
                   fail == success_by_emotion[i].v[2]
               IN  [k |-> success_by_emotion[i].k,
                    v |-> IF succ + fail > 0 THEN Frac(succ, succ + fail)
                          ELSE Frac(0, 1)]]
        top_positive == Top3(SortedByRatio(success_ratio))
    IN  IF success_by_emotion = <<>> THEN <<>>
        ELSE <<PatternInsight(
                 Description("most correlated with successful rituals", top_positive),
                 success_ratio,
                 [k |-> "emotions", v |-> Keys(top_positive)])>>

\* generate_insights with the success-by-emotion block moved ahead of the
\* model block.
generate_insights_reordered(inters, rits) ==
    EmotionFrequencyInsight(inters, rits)
    \o SuccessRateInsight(rits)
    \o SuccessByEmotionInsight(rits)
    \o ModelInsight(inters, rits)

generate_insights(inters, rits) ==
    EmotionFrequencyInsight(inters, rits)
    \o SuccessRateInsight(rits)
    \o ModelInsight(inters, rits)
    \o SuccessByEmotionInsight(rits)

(***************************************************************************)
(* The inputs the callers draw from, and the databases a run may start on. *)
(***************************************************************************)
\* 12:00+05:00 (= 07:00Z), 10:00Z and 09:00:00.5-02:00 (= 11:00:00.5Z).
InteractionInputs ==
    {FamiliarInteraction(DT(12, 0, TRUE, 5), "owl", "vision", <<>>, None, None),
     FamiliarInteraction(DT(10, 0, TRUE, 0), "gardener", "conversation",
                         <<Emotion("joy", 80), Emotion("fear", 0)>>,
                         "dream", "m1"),
     FamiliarInteraction(DT(9, 500000, TRUE, 0 - 2), "owl", "intuition",
                         <<Emotion("fear", 100), Emotion("joy", 25)>>,
                         "", "m1")}

RitualInputs ==
    {RitualOutcome(DT(10, 0, TRUE, 0), "Moon Rite", TRUE, "clear sky",
                   <<Emotion("joy", 80)>>, None, "m1"),
     RitualOutcome(DT(12, 0, TRUE, 5), "Sun Rite", FALSE, None,
                   <<>>, "rain", None)}

\* The filters of a get call: model_id, start and end, each optional
\* (None; the empty sequence).
ModelFilters == {None, "m1"}

TimeFilters == {<<>>, <<DT(10, 0, TRUE, 0)>>}

\* Rows written before this run by other versions or tools (the emotions
\* column is opaque TEXT to the database): emotions text that is not JSON,
\* and an array holding an object with an out-of-range intensity.
LegacyInteractions ==
    {[id |-> 1, timestamp |-> isoformat(DT(10, 0, TRUE, 0)),
      familiar_id |-> "owl", interaction_type |-> "vision",
      emotions |-> e, notes |-> None, model_id |-> None] :
        e \in {Text("invalid", <<>>),
               Text("array", <<Item({"name", "intensity"}, "joy", 150)>>)}}

\* A legacy ritual row whose emotions text is a JSON scalar.
LegacyRituals ==
    {[id |-> 1, timestamp |-> isoformat(DT(10, 0, TRUE, 0)),
      ritual_name |-> "Moon Rite", success |-> 1,
      outcome_description |-> None,
      emotions |-> Text("scalar", <<>>),
      notes |-> None, model_id |-> None]}

\* A database file that does not exist yet, or one holding both tables and
\* one legacy row.
InitialStores ==
    {[schema |-> {}, interactions |-> <<>>, rituals |-> <<>>]}
    \cup
    {[schema |-> {"interactions", "rituals"}, interactions |-> <<l>>,
      rituals |-> <<>>] : l \in LegacyInteractions}
    \cup
    {[schema |-> {"interactions", "rituals"}, interactions |-> <<>>,
      rituals |-> <<l>>] : l \in LegacyRituals}

NoFilter == [model_id |-> None, start |-> <<>>, end |-> <<>>]

\* No function of patterns.py has been applied.
NoOut == [fn |-> "none", value |-> <<>>]

\* The outcome of a call op(a) by caller p: status "ok" or the exception's
\* name; id the returned row id of an add; rows the records a get returns.
Outcome(p, op, a, status, id, rows) ==
    [p |-> {p}, op |-> op, arg |-> a, status |-> status, id |-> id, rows |-> rows]

NoRet == [p |-> {}, op |-> "none", arg |-> NoFilter, status |-> "none",
          id |-> 0, rows |-> <<>>]

Init ==
    /\ \E s \in InitialStores :
          /\ schema = s.schema
          /\ interactions = s.interactions
          /\ rituals = s.rituals
    /\ lock = {}
    /\ pc = [p \in Procs |-> "idle"]
    /\ arg = [p \in Procs |-> <<>>]
    /\ conn = [p \in Procs |-> FALSE]
    /\ pending = [p \in Procs |-> <<>>]
    /\ ret = NoRet
    /\ logged = [interactions |-> <<>>, rituals |-> <<>>]
    /\ in_interactions = <<>>
    /\ in_rituals = <<>>
    /\ out = NoOut

(***************************************************************************)
(* get_connection: sqlite3.connect on entry of the with block, conn.close  *)
(* in its finally clause, on return and on exception alike.                *)
(***************************************************************************)
\* Caller p enters "with get_connection(db_path) as conn".
Open(p, next) ==
    /\ pc[p] = "idle"
    /\ pc' = [pc EXCEPT ![p] = next]
    /\ conn' = [conn EXCEPT ![p] = TRUE]
    /\ ret' = NoRet
    /\ UNCHANGED <<schema, interactions, rituals, lock, arg, pending, logged>>
    /\ UNCHANGED insightVars

\* Close without the finally clause's conn.close(): the connection stays
\* open after the call has ended.
CloseLeaking(p, r) ==
    /\ pc' = [pc EXCEPT ![p] = "idle"]
    /\ conn' = conn
    /\ pending' = [pending EXCEPT ![p] = <<>>]
    /\ arg' = [arg EXCEPT ![p] = <<>>]
    /\ lock' = lock \ {p}
    /\ ret' = r
    /\ UNCHANGED insightVars

\* Caller p leaves the with block: the connection is closed, an open
\* transaction is rolled back, and the call ends with outcome r.
Close(p, r) ==
    /\ pc' = [pc EXCEPT ![p] = "idle"]
    /\ conn' = [conn EXCEPT ![p] = FALSE]
    /\ pending' = [pending EXCEPT ![p] = <<>>]
    /\ arg' = [arg EXCEPT ![p] = <<>>]
    /\ lock' = lock \ {p}
    /\ ret' = r
    /\ UNCHANGED insightVars

(***************************************************************************)
(* init_db                                                                 *)
(***************************************************************************)
InitDbBegin(p) == Open(p, "init_interactions")

\* A destructive schema statement (DROP TABLE IF EXISTS name; CREATE TABLE
\* name) in place of the conditional one: the table is left empty.
CreateTableAfterDrop(p, name, next) ==
    /\ schema' = schema \cup {name}
    /\ interactions' = IF name = "interactions" THEN <<>> ELSE interactions
    /\ rituals' = IF name = "rituals" THEN <<>> ELSE rituals
    /\ pc' = [pc EXCEPT ![p] = next]
    /\ ret' = NoRet
    /\ UNCHANGED <<lock, arg, conn, pending, logged>>
    /\ UNCHANGED insightVars

\* CREATE TABLE IF NOT EXISTS name: nothing when the table exists; creates
\* it empty (DDL runs outside any transaction, so at once) when the write
\* lock is free; "database is locked" when another caller holds it.
CreateTableIfNotExists(p, name, next) ==
    \/ /\ name \in schema \/ lock = {}
       /\ schema' = schema \cup {name}
       /\ pc' = [pc EXCEPT ![p] = next]
       /\ ret' = NoRet
       /\ UNCHANGED <<interactions, rituals, lock, arg, conn, pending, logged>>
       /\ UNCHANGED insightVars
    \/ /\ name \notin schema /\ lock # {}
       /\ Close(p, Outcome(p, "init_db", NoFilter, "OperationalError", 0, <<>>))
       /\ UNCHANGED <<schema, interactions, rituals, logged>>

InitDbCreateInteractions(p) ==
    /\ pc[p] = "init_interactions"
    /\ CreateTableIfNotExists(p, "interactions", "init_rituals")

InitDbCreateRituals(p) ==
    /\ pc[p] = "init_rituals"
    /\ CreateTableIfNotExists(p, "rituals", "init_commit")

\* conn.commit() with no open transaction, then the end of the with block.
InitDbCommit(p) ==
    /\ pc[p] = "init_commit"
    /\ Close(p, Outcome(p, "init_db", NoFilter, "ok", 0, <<>>))
    /\ UNCHANGED <<schema, interactions, rituals, logged>>

(***************************************************************************)
(* add_interaction and add_ritual                                          *)
(***************************************************************************)
\* Rows of a table plus the add calls in progress on it.
InFlight(rows, insert, commit) ==
    Len(rows) + Cardinality({q \in Procs : pc[q] \in {insert, commit}})

AddInteractionBegin(p) ==
    /\ InFlight(interactions, "add_i_insert", "add_i_commit") < MaxRows
    /\ Open(p, "add_i_insert")

\* Insert on a database without write locking: the INSERT goes ahead while
\* another caller's transaction is open.
InsertWithoutLock(p, op, table, r, row, next) ==
    \/ /\ table \in schema
       /\ lock' = lock \cup {p}
       /\ arg' = [arg EXCEPT ![p] = <<r>>]
       /\ pending' = [pending EXCEPT ![p] = <<row>>]
       /\ pc' = [pc EXCEPT ![p] = next]
       /\ ret' = NoRet
       /\ UNCHANGED <<schema, interactions, rituals, conn, logged>>
       /\ UNCHANGED insightVars
    \/ /\ table \notin schema
       /\ Close(p, Outcome(p, op, NoFilter, "OperationalError", 0, <<>>))
       /\ UNCHANGED <<schema, interactions, rituals, logged>>

\* cur.execute(INSERT ...) for record r: opens a transaction and takes the
\* write lock; the row gets its id now and stays invisible to others until
\* the commit.  Raises OperationalError when the table does not exist or
\* when another caller holds the write lock until the busy timeout expires.
Insert(p, op, table, r, row, next) ==
    \/ /\ table \in schema
       /\ lock = {}
       /\ lock' = {p}
       /\ arg' = [arg EXCEPT ![p] = <<r>>]
       /\ pending' = [pending EXCEPT ![p] = <<row>>]
       /\ pc' = [pc EXCEPT ![p] = next]
       /\ ret' = NoRet
       /\ UNCHANGED <<schema, interactions, rituals, conn, logged>>
       /\ UNCHANGED insightVars
    \/ /\ table \notin schema \/ lock # {}
       /\ Close(p, Outcome(p, op, NoFilter, "OperationalError", 0, <<>>))
       /\ UNCHANGED <<schema, interactions, rituals, logged>>

AddInteractionInsert(p, r) ==
    /\ pc[p] = "add_i_insert"
    /\ Insert(p, "add_interaction", "interactions", r,
              InteractionRow(NextId(interactions), r), "add_i_commit")

\* AddInteractionCommit for "INSERT OR REPLACE" keyed on the familiar: the
\* new row takes the place of the rows of the same familiar.
AddInteractionCommitReplacing(p) ==
    /\ pc[p] = "add_i_commit"
    /\ interactions' =
          Append(SelectSeq(interactions,
                           LAMBDA row : row.familiar_id # pending[p][1].familiar_id),
                 pending[p][1])
    /\ logged' = [logged EXCEPT !.interactions =
                     Append(@, [id |-> pending[p][1].id, rec |-> arg[p][1]])]
    /\ Close(p, Outcome(p, "add_interaction", NoFilter, "ok",
                        pending[p][1].id, <<>>))
    /\ UNCHANGED <<schema, rituals>>

\* conn.commit(), return cur.lastrowid, end of the with block.
AddInteractionCommit(p) ==
    /\ pc[p] = "add_i_commit"
    /\ interactions' = Append(interactions, pending[p][1])
    /\ logged' = [logged EXCEPT !.interactions =
                     Append(@, [id |-> pending[p][1].id, rec |-> arg[p][1]])]
    /\ Close(p, Outcome(p, "add_interaction", NoFilter, "ok",
                        pending[p][1].id, <<>>))
    /\ UNCHANGED <<schema, rituals>>

AddRitualBegin(p) ==
    /\ InFlight(rituals, "add_r_insert", "add_r_commit") < MaxRows
    /\ Open(p, "add_r_insert")

AddRitualInsert(p, r) ==
    /\ pc[p] = "add_r_insert"
    /\ Insert(p, "add_ritual", "rituals", r, RitualRow(NextId(rituals), r),
              "add_r_commit")

AddRitualCommit(p) ==
    /\ pc[p] = "add_r_commit"
    /\ rituals' = Append(rituals, pending[p][1])
    /\ logged' = [logged EXCEPT !.rituals =
                     Append(@, [id |-> pending[p][1].id, rec |-> arg[p][1]])]
    /\ Close(p, Outcome(p, "add_ritual", NoFilter, "ok", pending[p][1].id, <<>>))
    /\ UNCHANGED <<schema, interactions>>

(***************************************************************************)
(* get_interactions and get_rituals                                        *)
(***************************************************************************)
GetInteractionsBegin(p) == Open(p, "get_i_select")

\* The outcome of a get call with filters a, given the rows sel its SELECT
\* fetches and the records built from them: the SELECT raises
\* OperationalError without the table; the row loop after the with block
\* raises what _deserialize_emotions raises, and otherwise returns the
\* records.
GetOutcome(p, op, table, a, sel, records) ==
    IF table \notin schema
    THEN Outcome(p, op, a, "OperationalError", 0, <<>>)
    ELSE IF FirstRaised(sel) # ""
    THEN Outcome(p, op, a, FirstRaised(sel), 0, <<>>)
    ELSE Outcome(p, op, a, "ok", 0, records)

\* GetInteractionsSelect as a consuming read: the rows it returns are
\* deleted from the table.
GetInteractionsSelectConsuming(p, a) ==
    /\ pc[p] = "get_i_select"
    /\ LET sel == SelectWhere(interactions, a.model_id, a.start, a.end)
       IN  /\ Close(p, GetOutcome(p, "get_interactions", "interactions", a, sel,
                                  [i \in 1..Len(sel) |-> InteractionOfRow(sel[i])]))
           /\ interactions' = SelectSeq(interactions, LAMBDA row : row \notin Range(sel))
    /\ UNCHANGED <<schema, rituals, logged>>

GetInteractionsSelect(p, a) ==
    /\ pc[p] = "get_i_select"
    /\ LET sel == SelectWhere(interactions, a.model_id, a.start, a.end)
       IN  Close(p, GetOutcome(p, "get_interactions", "interactions", a, sel,
                               [i \in 1..Len(sel) |-> InteractionOfRow(sel[i])]))
    /\ UNCHANGED <<schema, interactions, rituals, logged>>

GetRitualsBegin(p) == Open(p, "get_r_select")

GetRitualsSelect(p, a) ==
    /\ pc[p] = "get_r_select"
    /\ LET sel == SelectWhere(rituals, a.model_id, a.start, a.end)
       IN  Close(p, GetOutcome(p, "get_rituals", "rituals", a, sel,
                               [i \in 1..Len(sel) |-> RitualOfRow(sel[i])]))
    /\ UNCHANGED <<schema, interactions, rituals, logged>>

\* The filter combinations a get call is made with.
Filters ==
    {[model_id |-> m, start |-> s, end |-> e] :
        m \in ModelFilters, s \in TimeFilters, e \in TimeFilters}

Next ==
    \E p \in Procs :
        \/ InitDbBegin(p)
        \/ InitDbCreateInteractions(p)
        \/ InitDbCreateRituals(p)
        \/ InitDbCommit(p)
        \/ AddInteractionBegin(p)
        \/ \E r \in InteractionInputs : AddInteractionInsert(p, r)
        \/ AddInteractionCommit(p)
        \/ AddRitualBegin(p)
        \/ \E r \in RitualInputs : AddRitualInsert(p, r)
        \/ AddRitualCommit(p)
        \/ GetInteractionsBegin(p)
        \/ \E a \in Filters : GetInteractionsSelect(p, a)
        \/ GetRitualsBegin(p)
        \/ \E a \in Filters : GetRitualsSelect(p, a)

Spec == Init /\ [][Next]_vars

(***************************************************************************)
(* SpecFair: the store with callers that run on.  The same statements as   *)
(* Spec, on fewer inputs: a database that does not exist yet or one that   *)
(* holds the legacy ritual row, one record per table, no filters.          *)
(***************************************************************************)
FairInit == Init /\ interactions = <<>>

FairInteractionInputs ==
    {FamiliarInteraction(DT(10, 0, TRUE, 0), "owl", "vision",
                         <<Emotion("joy", 80)>>, None, "m1")}

FairRitualInputs ==
    {RitualOutcome(DT(10, 0, TRUE, 0), "Moon Rite", TRUE, None, <<>>, None, None)}

\* The steps of caller p inside a call it has begun: each is a statement
\* of a running thread, which runs on to the end of its with block (an
\* INSERT that finds the database locked ends with "database is locked"
\* when the busy timeout expires).
Continue(p) ==
    \/ InitDbCreateInteractions(p)
    \/ InitDbCreateRituals(p)
    \/ InitDbCommit(p)
    \/ \E r \in FairInteractionInputs : AddInteractionInsert(p, r)
    \/ AddInteractionCommit(p)
    \/ \E r \in FairRitualInputs : AddRitualInsert(p, r)
    \/ AddRitualCommit(p)
    \/ GetInteractionsSelect(p, NoFilter)
    \/ GetRitualsSelect(p, NoFilter)

\* A caller begins a call, or a caller inside a call takes its next step.
FairNext ==
    \E p \in Procs :
        \/ InitDbBegin(p)
        \/ AddInteractionBegin(p)
        \/ AddRitualBegin(p)
        \/ GetInteractionsBegin(p)
        \/ GetRitualsBegin(p)
        \/ Continue(p)

SpecFair ==
    FairInit /\ [][FairNext]_vars /\ \A p \in Procs : WF_vars(Continue(p))

(***************************************************************************)
(* SpecInsights: the functions of patterns.py applied to collections drawn *)
(* from bounded sets of records.                                           *)
(***************************************************************************)
\* Sequences over S of length at most n.
SeqsUpTo(S, n) == UNION {[1..k -> S] : k \in 0..n}

\* The emotion lists of a record: any names in any order, repeats included.
EmotionLists == SeqsUpTo({Emotion("joy", 80), Emotion("fear", 20)}, MaxEmotions)

\* model_id of a record: absent, empty, a model's name, or the text "unknown".
InsightModels == {None, "", "m1", "unknown"}

InsightInteractions ==
    {FamiliarInteraction(DT(10, 0, TRUE, 0), "owl", "vision", e, None, m) :
        e \in EmotionLists, m \in InsightModels}

InsightRituals ==
    {RitualOutcome(DT(10, 0, TRUE, 0), n, s, None, e, None, m) :
        n \in {"Moon Rite", "Sun Rite"}, s \in BOOLEAN, e \in EmotionLists,
        m \in {None, "m1"}}

InsightInit ==
    /\ in_interactions \in SeqsUpTo(InsightInteractions, MaxRecords)
    /\ in_rituals \in SeqsUpTo(InsightRituals, MaxRecords)
    /\ Len(in_interactions) + Len(in_rituals) <= MaxRecords
    /\ out = NoOut
    /\ schema = {}
    /\ interactions = <<>>
    /\ rituals = <<>>
    /\ lock = {}
    /\ pc = [p \in Procs |-> "idle"]
    /\ arg = [p \in Procs |-> <<>>]
    /\ conn = [p \in Procs |-> FALSE]
    /\ pending = [p \in Procs |-> <<>>]
    /\ ret = NoRet
    /\ logged = [interactions |-> <<>>, rituals |-> <<>>]

\* A caller applies function fn of patterns.py to the collections.
Apply(fn, value) ==
    /\ out = NoOut
    /\ out' = [fn |-> fn, value |-> value]
    /\ UNCHANGED <<in_interactions, in_rituals>>
    /\ UNCHANGED storeVars

AggregateEmotionCounts ==
    Apply("aggregate_emotion_counts",
          aggregate_emotion_counts(in_interactions, in_rituals))

ComputeSuccessRate ==
    Apply("compute_success_rate", compute_success_rate(in_rituals))

EmotionCountsByModel ==
    Apply("emotion_counts_by_model",
          emotion_counts_by_model(in_interactions, in_rituals))

RitualSuccessByEmotion ==
    Apply("ritual_success_by_emotion", ritual_success_by_emotion(in_rituals))

GenerateInsights ==
    Apply("generate_insights", generate_insights(in_interactions, in_rituals))

InsightNext ==
    \/ AggregateEmotionCounts
    \/ ComputeSuccessRate
    \/ EmotionCountsByModel
    \/ RitualSuccessByEmotion
    \/ GenerateInsights

SpecInsights == InsightInit /\ [][InsightNext]_vars

(***************************************************************************)
(* SpecServer: the store of SpecFair (without fairness) together with the  *)
(* insights resource of server.py, which keeps what get_interactions and   *)
(* get_rituals returned and hands it to generate_insights.                 *)
(***************************************************************************)
\* interactions = db.get_interactions(db_path=db_path)
KeepInteractions ==
    /\ ret.op = "get_interactions"
    /\ ret.status = "ok"
    /\ in_interactions' = ret.rows
    /\ UNCHANGED <<in_rituals, out>>
    /\ UNCHANGED storeVars

\* rituals = db.get_rituals(db_path=db_path)
KeepRituals ==
    /\ ret.op = "get_rituals"
    /\ ret.status = "ok"
    /\ in_rituals' = ret.rows
    /\ UNCHANGED <<in_interactions, out>>
    /\ UNCHANGED storeVars

ServerNext ==
    \/ FairNext
    \/ KeepInteractions
    \/ KeepRituals
    \/ GenerateInsights

SpecServer == FairInit /\ [][ServerNext]_vars

(***************************************************************************)
(* SpecValidation: callers construct records from raw values (schemas.py)  *)
(* and hand the records they obtained to add_interaction and add_ritual.   *)
(***************************************************************************)
\* Raw intensities in hundredths: -0.01, 0.0, 1.0 and 1.01.
RawIntensities == {0 - 1, 0, 100, 101}

\* The raw emotion lists a caller passes: name and intensity both given.
RawEmotionLists ==
    SeqsUpTo({Item({"name", "intensity"}, "joy", i) : i \in RawIntensities},
             MaxEmotions)

\* The outcome of constructing a record from raw emotions: pydantic raises
\* ValidationError when an item is not a valid EmotionIntensity.
Constructed(fn, raw) ==
    [fn |-> fn,
     value |-> [raw |-> raw,
                raised |-> IF \A i \in 1..Len(raw) : EmotionIntensityValid(raw[i])
                           THEN "" ELSE "ValidationError"]]

\* The emotions of a record constructed from valid raw items.
EmotionsOf(raw) == [i \in 1..Len(raw) |-> Emotion(raw[i].name, raw[i].intensity)]

\* FamiliarInteraction(timestamp=..., emotions=raw, ...): the caller holds
\* the record only when the construction returned.
NewInteraction(raw) ==
    /\ Len(in_interactions) + Len(in_rituals) < MaxRecords
    /\ out' = Constructed("FamiliarInteraction", raw)
    /\ in_interactions' =
          IF out'.value.raised = ""
          THEN Append(in_interactions,
                      FamiliarInteraction(DT(10, 0, TRUE, 0), "owl", "vision",
                                          EmotionsOf(raw), None, None))
          ELSE in_interactions
    /\ UNCHANGED in_rituals
    /\ UNCHANGED storeVars

\* RitualOutcome(timestamp=..., emotions=raw, ...).
NewRitual(raw) ==
    /\ Len(in_interactions) + Len(in_rituals) < MaxRecords
    /\ out' = Constructed("RitualOutcome", raw)
    /\ in_rituals' =
          IF out'.value.raised = ""
          THEN Append(in_rituals,
                      RitualOutcome(DT(10, 0, TRUE, 0), "Moon Rite", TRUE, None,
                                    EmotionsOf(raw), None, None))
          ELSE in_rituals
    /\ UNCHANGED in_interactions
    /\ UNCHANGED storeVars

\* A database that holds both tables.
ValidationInit == Init /\ schema # {}

ValidationNext ==
    \/ \E raw \in RawEmotionLists : NewInteraction(raw)
    \/ \E raw \in RawEmotionLists : NewRitual(raw)
    \/ \E p \in Procs :
          \/ AddInteractionBegin(p)
          \/ \E r \in Range(in_interactions) : AddInteractionInsert(p, r)
          \/ AddInteractionCommit(p)
          \/ AddRitualBegin(p)
          \/ \E r \in Range(in_rituals) : AddRitualInsert(p, r)
          \/ AddRitualCommit(p)

SpecValidation == ValidationInit /\ [][ValidationNext]_vars

(***************************************************************************)
(* SpecEmotions: the emotion counting of patterns.py on at most one        *)
(* interaction and one ritual whose emotion lists range over four names,   *)
(* so that more than three names occur and counts tie.                     *)
(***************************************************************************)
EmotionNames == {"joy", "fear", "awe", "calm"}

EntryLists == SeqsUpTo({Emotion(n, 50) : n \in EmotionNames}, MaxEntries)

EmotionsInit ==
    /\ in_interactions \in
          {<<>>} \cup {<<FamiliarInteraction(DT(10, 0, TRUE, 0), "owl", "vision",
                                             e, None, None)>> : e \in EntryLists}
    /\ in_rituals \in
          {<<>>} \cup {<<RitualOutcome(DT(10, 0, TRUE, 0), "Moon Rite", TRUE,
                                       None, e, None, None)>> : e \in EntryLists}
    /\ out = NoOut
    /\ schema = {}
    /\ interactions = <<>>
    /\ rituals = <<>>
    /\ lock = {}
    /\ pc = [p \in Procs |-> "idle"]
    /\ arg = [p \in Procs |-> <<>>]
    /\ conn = [p \in Procs |-> FALSE]
    /\ pending = [p \in Procs |-> <<>>]
    /\ ret = NoRet
    /\ logged = [interactions |-> <<>>, rituals |-> <<>>]

EmotionsNext ==
    \/ AggregateEmotionCounts
    \/ GenerateInsights

SpecEmotions == EmotionsInit /\ [][EmotionsNext]_vars

(***************************************************************************)
(* Claims about the store, checked under Spec.  ret holds a call's outcome *)
(* in the state its last step produces; a get's last step leaves the       *)
(* tables as it read them.                                                 *)
(***************************************************************************)
\* The records a sequence of log entries holds.
Records(log) == {log[i].rec : i \in 1..Len(log)}

\* C1: a record whose add call returned is returned, equal in every field, by
\* every later get without filters, whatever the store held before.
C1_RoundTrip ==
    /\ (ret.op = "get_interactions" /\ ret.arg = NoFilter
          /\ logged.interactions # <<>>)
       => (ret.status = "ok" /\ Records(logged.interactions) \subseteq Range(ret.rows))
    /\ (ret.op = "get_rituals" /\ ret.arg = NoFilter /\ logged.rituals # <<>>)
       => (ret.status = "ok" /\ Records(logged.rituals) \subseteq Range(ret.rows))

\* The instant a datetime represents: <<seconds, microseconds>> from the
\* start of the day in UTC.
Instant(dt) == <<(dt.hour - dt.off) * 3600, dt.micro>>

\* a is not later than b, for two instants.
InstantLeq(a, b) == a[1] < b[1] \/ (a[1] = b[1] /\ a[2] <= b[2])

\* A stored timestamp satisfies the time filters that are given, compared
\* as instants, both bounds inclusive.
InstantMatches(row, a) ==
    /\ a.model_id # None => row.model_id = a.model_id
    /\ a.start # <<>> =>
          InstantLeq(Instant(a.start[1]), Instant(fromisoformat(row.timestamp)))
    /\ a.end # <<>> =>
          InstantLeq(Instant(fromisoformat(row.timestamp)), Instant(a.end[1]))

RECURSIVE Keep(_, _)
\* The rows that satisfy filters a by instant, in stored order.
Keep(rows, a) ==
    IF rows = <<>> THEN <<>>
    ELSE (IF InstantMatches(rows[1], a) THEN <<rows[1]>> ELSE <<>>)
         \o Keep(SubSeq(rows, 2, Len(rows)), a)

\* C2: a get that returns, returns exactly the stored rows that satisfy all
\* the given filters, the time bounds compared on the represented instants.
C2_FilterByInstant ==
    /\ (ret.op = "get_interactions" /\ ret.status = "ok")
       => ret.rows = [i \in 1..Len(Keep(interactions, ret.arg)) |->
                        InteractionOfRow(Keep(interactions, ret.arg)[i])]
    /\ (ret.op = "get_rituals" /\ ret.status = "ok")
       => ret.rows = [i \in 1..Len(Keep(rituals, ret.arg)) |->
                        RitualOfRow(Keep(rituals, ret.arg)[i])]

\* An emotions text is well formed: a JSON array of {name, intensity}
\* objects with intensity within [0, 1].
WellFormed(text) ==
    /\ text.kind = "array"
    /\ \A i \in 1..Len(text.items) :
          /\ text.items[i].keys = {"name", "intensity"}
          /\ text.items[i].intensity \in 0..100

\* The emotion list the leniency policy gives a stored text: its emotions
\* when well formed, the empty list otherwise.
LenientEmotions(text) ==
    IF WellFormed(text)
    THEN [i \in 1..Len(text.items) |->
            Emotion(text.items[i].name, text.items[i].intensity)]
    ELSE <<>>

\* C3: a get never raises because of a malformed stored emotions text: it
\* returns every selected row, a malformed row with an empty emotion list.
C3_MalformedIsEmpty ==
    /\ (ret.op = "get_interactions" /\ "interactions" \in schema)
       => /\ ret.status = "ok"
          /\ LET sel == SelectWhere(interactions, ret.arg.model_id,
                                    ret.arg.start, ret.arg.end)
             IN  /\ Len(ret.rows) = Len(sel)
                 /\ \A i \in 1..Len(sel) :
                       ret.rows[i].emotions = LenientEmotions(sel[i].emotions)
    /\ (ret.op = "get_rituals" /\ "rituals" \in schema)
       => /\ ret.status = "ok"
          /\ LET sel == SelectWhere(rituals, ret.arg.model_id,
                                    ret.arg.start, ret.arg.end)
             IN  /\ Len(ret.rows) = Len(sel)
                 /\ \A i \in 1..Len(sel) :
                       ret.rows[i].emotions = LenientEmotions(sel[i].emotions)

\* A step of init_db by caller p.
InitDbStep(p) ==
    \/ pc[p] = "idle" /\ pc'[p] = "init_interactions"
    \/ pc[p] \in {"init_interactions", "init_rituals", "init_commit"}
       /\ pc'[p] # pc[p]

\* C4: no step of init_db changes a row of either table, however the calls
\* interleave with adds; no table ever disappears; and when an init_db call
\* returns, both tables exist.
C4_InitNonDestructive ==
    [][/\ (\E p \in Procs : InitDbStep(p))
          => (interactions' = interactions /\ rituals' = rituals)
       /\ schema \subseteq schema'
       /\ (ret'.op = "init_db" /\ ret'.status = "ok")
          => schema' = {"interactions", "rituals"}]_vars

\* C4 witness: an init_db call returns on a database that holds a row added
\* in this run while another caller's insert is uncommitted.
C4_Witness ==
    /\ ret.op = "init_db"
    /\ ret.status = "ok"
    /\ logged.interactions # <<>>
    /\ \E q \in Procs : pending[q] # <<>>

\* The ids of the add calls that returned.
LoggedIds(log) == {log[i].id : i \in 1..Len(log)}

\* Every add call of log left exactly one row in rows, the one with the id
\* it returned and the field values of its own record; no two calls share
\* an id; every other row was there before the run.
OneRowPerCall(log, rows, legacy, expected) ==
    /\ \A i \in 1..Len(log) :
          /\ Cardinality({j \in 1..Len(rows) : rows[j].id = log[i].id}) = 1
          /\ \E j \in 1..Len(rows) : rows[j] = expected[i]
    /\ \A i, k \in 1..Len(log) : i # k => log[i].id # log[k].id
    /\ \A j \in 1..Len(rows) : rows[j].id \notin LoggedIds(log) => rows[j] \in legacy

\* C12: under every interleaving of add calls by several writers, each call
\* that returned an id has exactly one row in its table, complete and with
\* its own field values, and the table holds nothing else but the rows it
\* started with: no row is lost, overwritten or merged.
C12_NoLostWrite ==
    /\ OneRowPerCall(logged.interactions, interactions, LegacyInteractions,
                     [i \in 1..Len(logged.interactions) |->
                        InteractionRow(logged.interactions[i].id,
                                       logged.interactions[i].rec)])
    /\ OneRowPerCall(logged.rituals, rituals, LegacyRituals,
                     [i \in 1..Len(logged.rituals) |->
                        RitualRow(logged.rituals[i].id, logged.rituals[i].rec)])

\* C12 witness: an add_interaction call returns its id while another
\* writer's add_interaction, begun before, is still in progress.
C12_Witness ==
    /\ ret.op = "add_interaction"
    /\ ret.status = "ok"
    /\ \E q \in Procs \ ret.p : pc[q] = "add_i_insert"

\* C13: a caller that is in no store operation holds no open connection
\* (so with no operation in progress none is open), whichever way its last
\* operation ended; and a connection that is open is eventually closed.
C13_ConnectionReleased ==
    /\ [](\A p \in Procs : pc[p] = "idle" => ~conn[p])
    /\ \A p \in Procs : conn[p] ~> ~conn[p]

\* C13 witness: an add_interaction has failed with a storage error and its
\* caller, back outside any operation, holds no connection.
C13_Witness ==
    /\ ret.op = "add_interaction"
    /\ ret.status = "OperationalError"
    /\ \A p \in ret.p : pc[p] = "idle" /\ ~conn[p]

\* Sequence s is a prefix of sequence t.
IsPrefix(s, t) == Len(s) <= Len(t) /\ SubSeq(t, 1, Len(s)) = s

\* C14: no step of any operation removes or changes a row: each table
\* after a step starts with the table before it, so every row once
\* inserted stays, unchanged, and the row counts never decrease.
C14_AppendOnly ==
    [][/\ IsPrefix(interactions, interactions')
       /\ IsPrefix(rituals, rituals')]_vars

\* C14 witness: a table holds a row from before the run and a row added in
\* it, and a get has just read them.
C14_Witness ==
    /\ Len(interactions) = 2
    /\ interactions[1] \in LegacyInteractions
    /\ logged.interactions # <<>>
    /\ ret.op = "get_interactions"

\* The positions of the rows of a table that the filters a of a get select.
Selected(rows, a) ==
    {j \in 1..Len(rows) : RowMatches(rows[j], a.model_id, a.start, a.end)}

\* The k-th smallest element of a set of positions.
Kth(S, k) == CHOOSE j \in S : Cardinality({x \in S : x < j}) = k - 1

\* Rows stand in their table in the order they were inserted, which is the
\* ascending order of their primary keys.
AscendingIds(rows) == \A i, j \in 1..Len(rows) : i < j => rows[i].id < rows[j].id

\* C15: primary keys ascend in insertion order, and a get that returns,
\* whatever its filters, returns the selected rows in that order: of two
\* selected rows the one inserted first comes first.
C15_InsertionOrder ==
    /\ AscendingIds(interactions)
    /\ AscendingIds(rituals)
    /\ (ret.op = "get_interactions" /\ ret.status = "ok") =>
          ret.rows = [k \in 1..Cardinality(Selected(interactions, ret.arg)) |->
                        InteractionOfRow(interactions[Kth(Selected(interactions, ret.arg), k)])]
    /\ (ret.op = "get_rituals" /\ ret.status = "ok") =>
          ret.rows = [k \in 1..Cardinality(Selected(rituals, ret.arg)) |->
                        RitualOfRow(rituals[Kth(Selected(rituals, ret.arg), k)])]

\* C15 witness: a get filtered by model returns two different records.
C15_Witness ==
    /\ ret.op = "get_interactions"
    /\ ret.status = "ok"
    /\ ret.arg.model_id = "m1"
    /\ Len(ret.rows) = 2
    /\ ret.rows[1] # ret.rows[2]

\* The ids of a log ascend strictly in the order the calls returned.
AscendingLog(log) == \A i, j \in 1..Len(log) : i < j => log[i].id < log[j].id

\* C17: the step in which an add call returns appends exactly one row, the
\* row of the returning caller's own record under the id returned, and
\* leaves the other table alone; the ids returned for one table ascend
\* strictly in insertion order, so they are pairwise distinct.
C17_OwnAscendingId ==
    [][/\ (ret'.op = "add_interaction" /\ ret'.status = "ok") =>
             \E p \in ret'.p :
                /\ pc[p] = "add_i_commit"
                /\ interactions' =
                      Append(interactions, InteractionRow(ret'.id, arg[p][1]))
                /\ rituals' = rituals
       /\ (ret'.op = "add_ritual" /\ ret'.status = "ok") =>
             \E p \in ret'.p :
                /\ pc[p] = "add_r_commit"
                /\ rituals' = Append(rituals, RitualRow(ret'.id, arg[p][1]))
                /\ interactions' = interactions
       /\ AscendingLog(logged'.interactions)
       /\ AscendingLog(logged'.rituals)]_vars

\* C17 witness: the second add_interaction of the run returns the id of
\* the row it appended, the first having returned a smaller one.
C17_Witness ==
    /\ ret.op = "add_interaction"
    /\ ret.status = "ok"
    /\ Len(logged.interactions) = 2
    /\ logged.interactions[2].id = ret.id
    /\ interactions[Len(interactions)].id = ret.id
    /\ logged.interactions[1].id < ret.id

(***************************************************************************)
(* Claims about the store and the insights resource, checked under         *)
(* SpecServer.                                                             *)
(***************************************************************************)
\* Caller p takes a step of the call that runs through the statements at,
\* with at[1] the first of them.
StepOf(p, at) ==
    \/ pc[p] = "idle" /\ pc'[p] = at[1]
    \/ pc[p] \in Range(at) /\ pc'[p] # pc[p]

\* C18: no step of get_interactions or get_rituals and no application of
\* generate_insights changes either table; no step of add_interaction
\* changes table rituals and no step of add_ritual changes table
\* interactions; an add that ends in a storage error leaves the rows of
\* both tables as they were.
C18_Frame ==
    [][/\ (\/ \E p \in Procs : StepOf(p, <<"get_i_select">>)
           \/ \E p \in Procs : StepOf(p, <<"get_r_select">>)
           \/ out' # out)
          => (interactions' = interactions /\ rituals' = rituals
              /\ schema' = schema)
       /\ (\E p \in Procs : StepOf(p, <<"add_i_insert", "add_i_commit">>))
          => rituals' = rituals
       /\ (\E p \in Procs : StepOf(p, <<"add_r_insert", "add_r_commit">>))
          => interactions' = interactions
       /\ (ret'.op \in {"add_interaction", "add_ritual"}
             /\ ret'.status = "OperationalError")
          => (interactions' = interactions /\ rituals' = rituals)]_vars

\* C18 witness: generate_insights has been applied to an interaction read
\* from the store, an add_ritual has just failed for want of its table,
\* and the interaction is still in the store.
C18_Witness ==
    /\ out.fn = "generate_insights"
    /\ in_interactions # <<>>
    /\ interactions # <<>>
    /\ ret.op = "add_ritual"
    /\ ret.status = "OperationalError"

(***************************************************************************)
(* Claims about the insight engine, checked under SpecInsights.            *)
(***************************************************************************)
\* All input records, interactions first: the order the functions scan in.
AllRecords == in_interactions \o in_rituals

\* The insights of out whose description has the given text, in order.
InsightsOf(text) ==
    {i \in 1..Len(out.value) : out.value[i].description.text = text}

\* The texts of the four insights, in the documented order.
InsightOrder ==
    <<"most frequently experienced emotions", "overall ritual success rate",
      "broadest range of emotions", "most correlated with successful rituals">>

Rank(text) == CHOOSE r \in 1..Len(InsightOrder) : InsightOrder[r] = text

\* The spec's example: no interactions, one successful ritual "Moon Rite"
\* carrying the single emotion joy at 0.8.
C5_Case ==
    /\ out.fn = "generate_insights"
    /\ in_interactions = <<>>
    /\ Len(in_rituals) = 1
    /\ in_rituals[1].ritual_name = "Moon Rite"
    /\ in_rituals[1].success
    /\ in_rituals[1].emotions = <<Emotion("joy", 80)>>

\* The success-rate insight of the example reports success_rate = 1.0 and
\* ritual_count = 1.0.
C5_SuccessMetrics ==
    \E i \in InsightsOf("overall ritual success rate") :
        out.value[i].metrics = <<[k |-> "success_rate", v |-> Frac(1, 1)],
                                 [k |-> "ritual_count", v |-> Frac(1, 1)]>>

\* C5 as stated: the example yields exactly 2 insights, the emotion-frequency
\* and the success-rate insight.
C5_TwoInsights ==
    C5_Case =>
        /\ Len(out.value) = 2
        /\ out.value[1].description.text = InsightOrder[1]
        /\ out.value[2].description.text = InsightOrder[2]
        /\ C5_SuccessMetrics

\* C5 amended: the example yields exactly 3 insights: emotion-frequency,
\* success-rate (success_rate = 1.0, ritual_count = 1.0) and
\* success-by-emotion; no multi-model insight.
C5_ThreeInsights ==
    C5_Case =>
        /\ Len(out.value) = 3
        /\ out.value[1].description.text = InsightOrder[1]
        /\ out.value[2].description.text = InsightOrder[2]
        /\ out.value[3].description.text = InsightOrder[4]
        /\ C5_SuccessMetrics

\* C5 witness: generate_insights has been applied to the example.
C5_Witness == C5_Case /\ in_rituals[1].model_id = None

\* C6: generate_insights returns 1 to 4 insights in the fixed relative
\* order; the emotion-frequency insight iff some record carries an emotion,
\* the success-rate insight always, the success-by-emotion insight iff some
\* ritual carries an emotion.
C6_FixedOrder ==
    out.fn = "generate_insights" =>
        /\ Len(out.value) \in 1..4
        /\ \A i \in 1..Len(out.value) :
              \E r \in 1..4 : out.value[i].description.text = InsightOrder[r]
        /\ \A i, j \in 1..Len(out.value) :
              i < j => Rank(out.value[i].description.text)
                       < Rank(out.value[j].description.text)
        /\ InsightsOf(InsightOrder[1]) # {}
           <=> \E i \in 1..Len(AllRecords) : AllRecords[i].emotions # <<>>
        /\ InsightsOf(InsightOrder[2]) # {}
        /\ InsightsOf(InsightOrder[4]) # {}
           <=> \E i \in 1..Len(in_rituals) : in_rituals[i].emotions # <<>>

\* C6 witness: all four insights are returned.
C6_Witness == out.fn = "generate_insights" /\ Len(out.value) = 4

\* The emotion names of a record.
NamesOf(rec) == {rec.emotions[i].name : i \in 1..Len(rec.emotions)}

\* The number of emotion entries named e a record carries.
Entries(rec, e) == Cardinality({i \in 1..Len(rec.emotions) : rec.emotions[i].name = e})

RECURSIVE Sum(_, _)
\* The sum of f over the indices in S.
Sum(f, S) ==
    IF S = {} THEN 0
    ELSE LET x == CHOOSE x \in S : TRUE IN f[x] + Sum(f, S \ {x})

\* The model a record is tallied under when only a missing identifier
\* (model_id = null) stands for "unknown".
NullAsUnknown(rec) == IF rec.model_id = None THEN "unknown" ELSE rec.model_id

\* The model a record is tallied under when a missing or empty identifier
\* stands for "unknown".
EffectiveModel(rec) ==
    IF rec.model_id \in {None, ""} THEN "unknown" ELSE rec.model_id

\* The input records that carry at least one emotion.
Carriers == {i \in 1..Len(AllRecords) : AllRecords[i].emotions # <<>>}

\* The models of the records that carry an emotion, and for such a model
\* its distinct emotion names and the first record that brings it in.
CarrierModels == {EffectiveModel(AllRecords[i]) : i \in Carriers}

Palette(m) ==
    UNION {NamesOf(AllRecords[i]) : i \in {j \in Carriers : EffectiveModel(AllRecords[j]) = m}}

FirstSeen(m) ==
    CHOOSE i \in Carriers :
        /\ EffectiveModel(AllRecords[i]) = m
        /\ \A j \in Carriers : EffectiveModel(AllRecords[j]) = m => i <= j

\* The multi-model insight names model m, and its metrics hold the
\* distinct-emotion count of every model of the set Ms.
NamesModel(ins, m, Ms) ==
    /\ ins.description.values[1] = m
    /\ Range(ins.metrics) = {[k |-> x, v |-> Frac(Cardinality(Palette(x)), 1)] : x \in Ms}
    /\ Len(ins.metrics) = Cardinality(Ms)

\* C7 as stated: the multi-model insight is present iff more than one
\* distinct model occurs among the input records, a record without model
\* identifier counting as "unknown".
C7_AnyRecordModels ==
    out.fn = "generate_insights" =>
        (InsightsOf(InsightOrder[3]) # {}
         <=> Cardinality({NullAsUnknown(AllRecords[i]) : i \in 1..Len(AllRecords)}) > 1)

\* C7 amended: the multi-model insight is present iff more than one distinct
\* model occurs among the records that carry at least one emotion, a missing
\* or empty model identifier counting as "unknown"; it names the model with
\* the most distinct emotion names, the first seen among equals (interactions
\* before rituals, each in input order), and its metrics hold the
\* distinct-emotion count of every such model.
C7_CarrierModels ==
    out.fn = "generate_insights" =>
        /\ InsightsOf(InsightOrder[3]) # {} <=> Cardinality(CarrierModels) > 1
        /\ \A i \in InsightsOf(InsightOrder[3]) :
              \E m \in CarrierModels :
                 /\ \A x \in CarrierModels :
                       \/ Cardinality(Palette(x)) < Cardinality(Palette(m))
                       \/ /\ Cardinality(Palette(x)) = Cardinality(Palette(m))
                          /\ FirstSeen(m) <= FirstSeen(x)
                 /\ NamesModel(out.value[i], m, CarrierModels)

\* C7 witness: two models tie on the number of distinct emotions and the
\* insight names the one seen first, which is not the first in name order.
C7_Witness ==
    /\ out.fn = "generate_insights"
    /\ InsightsOf(InsightOrder[3]) # {}
    /\ CarrierModels = {"m1", "unknown"}
    /\ Cardinality(Palette("m1")) = Cardinality(Palette("unknown"))
    /\ FirstSeen("unknown") < FirstSeen("m1")

\* C8: the success-rate insight has success_rate = successful rituals /
\* rituals (0.0 for no rituals, always within [0, 1]), ritual_count = the
\* number of rituals, and lists the ritual names in input order, repeats kept.
C8_SuccessRate ==
    out.fn = "generate_insights" =>
        \A i \in InsightsOf(InsightOrder[2]) :
            LET n == Len(in_rituals)
                ok == Cardinality({j \in 1..n : in_rituals[j].success})
                rate == Lookup(out.value[i].metrics, "success_rate")
            IN  /\ Keys(out.value[i].metrics) = <<"success_rate", "ritual_count">>
                /\ rate.num * (IF n = 0 THEN 1 ELSE n) = ok * rate.den
                /\ rate.den > 0
                /\ 0 <= rate.num /\ rate.num <= rate.den
                /\ n = 0 => rate.num = 0
                /\ Lookup(out.value[i].metrics, "ritual_count") = Frac(n, 1)
                /\ out.value[i].related_entities.k = "rituals"
                /\ out.value[i].related_entities.v =
                      [j \in 1..n |-> in_rituals[j].ritual_name]

\* C8 witness: two rituals of the same name, one successful and one not.
C8_Witness ==
    /\ out.fn = "generate_insights"
    /\ Len(in_rituals) = 2
    /\ in_rituals[1].ritual_name = in_rituals[2].ritual_name
    /\ in_rituals[1].success /\ ~in_rituals[2].success

\* The emotion entries named e over the records tallied under model m by
\* the rule Model.
EntriesUnder(m, e, Model(_)) ==
    Sum([i \in 1..Len(AllRecords) |-> Entries(AllRecords[i], e)],
        {i \in 1..Len(AllRecords) : Model(AllRecords[i]) = m})

\* emotion_counts_by_model tallies by the rule Model: result[m][e] is the
\* number of entries named e under m, for exactly the m and e with any.
TalliesBy(Model(_)) ==
    /\ \A x \in 1..Len(out.value) : \A y \in 1..Len(out.value[x].v) :
          out.value[x].v[y].v =
             EntriesUnder(out.value[x].k, out.value[x].v[y].k, Model)
    /\ \A i \in 1..Len(AllRecords) : \A e \in NamesOf(AllRecords[i]) :
          /\ HasKey(out.value, Model(AllRecords[i]))
          /\ HasKey(Lookup(out.value, Model(AllRecords[i])), e)
    /\ \A x, y \in 1..Len(out.value) : out.value[x].k = out.value[y].k => x = y

\* C9 as stated: exactly the records with model_id = null are tallied under
\* "unknown", every other record under its model_id.
C9_NullIsUnknown ==
    out.fn = "emotion_counts_by_model" => TalliesBy(NullAsUnknown)

\* C9 amended: result[m][e] is the number of emotion entries named e over
\* all interactions and rituals tallied under m, where a record is tallied
\* under "unknown" when its model_id is null or empty (and also when it is
\* the text "unknown"), and under its model_id otherwise.
C9_FalsyIsUnknown ==
    out.fn = "emotion_counts_by_model" => TalliesBy(EffectiveModel)

\* C9 witness: an interaction with an empty model_id and a ritual with none
\* carry the same emotion, counted together under "unknown".
C9_Witness ==
    /\ out.fn = "emotion_counts_by_model"
    /\ Len(in_interactions) = 1 /\ Len(in_rituals) = 1
    /\ in_interactions[1].model_id = ""
    /\ in_rituals[1].model_id = None
    /\ "joy" \in NamesOf(in_interactions[1]) \cap NamesOf(in_rituals[1])
    /\ Lookup(Lookup(out.value, "unknown"), "joy") >= 2

\* C10: for each emotion name of any ritual, ritual_success_by_emotion gives
\* (successful rituals carrying it, unsuccessful rituals carrying it), and
\* nothing for other names; no emotions at all give the empty mapping.
C10_CountsRituals ==
    out.fn = "ritual_success_by_emotion" =>
        /\ \A x \in 1..Len(out.value) :
              out.value[x].v =
                 <<Cardinality({j \in 1..Len(in_rituals) :
                       in_rituals[j].success
                       /\ out.value[x].k \in NamesOf(in_rituals[j])}),
                   Cardinality({j \in 1..Len(in_rituals) :
                       ~in_rituals[j].success
                       /\ out.value[x].k \in NamesOf(in_rituals[j])})>>
        /\ {out.value[x].k : x \in 1..Len(out.value)}
              = UNION {NamesOf(in_rituals[j]) : j \in 1..Len(in_rituals)}
        /\ \A x, y \in 1..Len(out.value) : out.value[x].k = out.value[y].k => x = y

\* The count a mapping gives name e, 0 when e is not a key.
CountIn(d, e) == IF HasKey(d, e) THEN Lookup(d, e) ELSE 0

\* The aggregate counts agg and the per-model counts bm agree: the same
\* names occur, and each name's aggregate count is the sum of its counts
\* over all model keys.
Agree(agg, bm) ==
    /\ Range(Keys(agg)) = UNION {Range(Keys(bm[m].v)) : m \in 1..Len(bm)}
    /\ \A e \in Range(Keys(agg)) :
          CountIn(agg, e) = Sum([m \in 1..Len(bm) |-> CountIn(bm[m].v, e)], 1..Len(bm))

\* C19: whichever of the two aggregations is applied, its result agrees
\* with the other's on the same collections; and the aggregate counts add
\* up to the number of emotion entries of all interactions and rituals.
C19_AggregationsAgree ==
    /\ out.fn = "aggregate_emotion_counts" =>
          /\ Agree(out.value, emotion_counts_by_model(in_interactions, in_rituals))
          /\ Sum([i \in 1..Len(out.value) |-> out.value[i].v], 1..Len(out.value))
                = Sum([i \in 1..Len(AllRecords) |-> Len(AllRecords[i].emotions)],
                      1..Len(AllRecords))
    /\ out.fn = "emotion_counts_by_model" =>
          Agree(aggregate_emotion_counts(in_interactions, in_rituals), out.value)

\* C19 witness: emotion_counts_by_model has split the entries of an
\* interaction and a ritual that share an emotion over two model keys.
C19_Witness ==
    /\ out.fn = "emotion_counts_by_model"
    /\ Len(out.value) = 2
    /\ in_interactions # <<>> /\ in_rituals # <<>>
    /\ \E e \in {"joy", "fear"} :
          CountIn(out.value[1].v, e) > 0 /\ CountIn(out.value[2].v, e) > 0

(***************************************************************************)
(* Claims about emotion counting, checked under SpecEmotions.              *)
(***************************************************************************)
RECURSIVE EntryNames(_)
\* The emotion names of a sequence of records, entry by entry, in scan order.
EntryNames(records) ==
    IF records = <<>> THEN <<>>
    ELSE [i \in 1..Len(records[1].emotions) |-> records[1].emotions[i].name]
         \o EntryNames(SubSeq(records, 2, Len(records)))

\* The names that occur, the total count of a name, and the position of its
\* first entry (interactions before rituals, each in input order).
NamesSeen == Range(EntryNames(AllRecords))

TotalCount(e) ==
    Cardinality({i \in 1..Len(EntryNames(AllRecords)) : EntryNames(AllRecords)[i] = e})

FirstEntry(e) ==
    CHOOSE i \in 1..Len(EntryNames(AllRecords)) :
        /\ EntryNames(AllRecords)[i] = e
        /\ \A j \in 1..(i - 1) : EntryNames(AllRecords)[j] # e

\* Name a ranks ahead of name b: a higher total count, or the same count
\* and seen first.
RanksAhead(a, b) ==
    \/ TotalCount(a) > TotalCount(b)
    \/ TotalCount(a) = TotalCount(b) /\ FirstEntry(a) < FirstEntry(b)

\* C11: when any emotion exists, the emotion-frequency insight is the first
\* insight; its related_entities.emotions lists the min(3, names) names of
\* highest total count, in descending count order, ties by first-seen order;
\* its metrics map every name that occurs to its total count.
C11_TopEmotions ==
    (out.fn = "generate_insights" /\ NamesSeen # {}) =>
        /\ InsightsOf(InsightOrder[1]) = {1}
        /\ out.value[1].related_entities.k = "emotions"
        /\ LET top == out.value[1].related_entities.v
           IN  /\ Len(top) = Min(3, Cardinality(NamesSeen))
               /\ \A q \in 1..Len(top) :
                     /\ top[q] \in NamesSeen
                     /\ Cardinality({x \in NamesSeen : RanksAhead(x, top[q])}) = q - 1
        /\ Len(out.value[1].metrics) = Cardinality(NamesSeen)
        /\ Range(out.value[1].metrics)
              = {[k |-> e, v |-> Frac(TotalCount(e), 1)] : e \in NamesSeen}

\* C11 witness: four names occur, and a name that made the top 3 has the
\* same count as one that did not and was seen later.
C11_Witness ==
    /\ out.fn = "generate_insights"
    /\ Cardinality(NamesSeen) = 4
    /\ Len(out.value[1].related_entities.v) = 3
    /\ \E a \in Range(out.value[1].related_entities.v) :
          \E b \in NamesSeen \ Range(out.value[1].related_entities.v) :
             TotalCount(a) = TotalCount(b) /\ FirstEntry(a) < FirstEntry(b)

(***************************************************************************)
(* Claims about record construction, checked under SpecValidation.         *)
(***************************************************************************)
\* The rows of a table written by the add calls of the run, committed or
\* not yet: every row but those the database started with.
WrittenRows(rows, legacy) ==
    {rows[j] : j \in {i \in 1..Len(rows) : rows[i] \notin legacy}}
    \cup UNION {Range(pending[p]) : p \in Procs}

\* Every emotion of a stored emotions text has an intensity within [0, 1].
IntensitiesWithinRange(text) ==
    \A i \in 1..Len(text.items) :
        text.items[i].intensity >= 0 /\ text.items[i].intensity <= 100

\* C16: a construction succeeds exactly when every intensity given lies
\* within [0, 1], both ends included, and raises ValidationError otherwise;
\* the records callers hold, and so every row add_interaction or add_ritual
\* writes, carry only intensities within [0, 1].
C16_ValidatedIntensity ==
    /\ out.fn \in {"FamiliarInteraction", "RitualOutcome"} =>
          /\ out.value.raised \in {"", "ValidationError"}
          /\ out.value.raised = ""
             <=> \A i \in 1..Len(out.value.raw) :
                    out.value.raw[i].intensity \in 0..100
    /\ \A i \in 1..Len(AllRecords) : \A j \in 1..Len(AllRecords[i].emotions) :
          AllRecords[i].emotions[j].intensity \in 0..100
    /\ \A row \in WrittenRows(interactions, LegacyInteractions)
                  \cup WrittenRows(rituals, LegacyRituals) :
          IntensitiesWithinRange(row.emotions)

\* C16 witness: a construction with intensity 1.01 has just failed, and a
\* row holding both intensities 0.0 and 1.0 has been written.
C16_Witness ==
    /\ out.fn = "FamiliarInteraction"
    /\ out.value.raised = "ValidationError"
    /\ \E i \in 1..Len(out.value.raw) : out.value.raw[i].intensity = 101
    /\ \E j \in 1..Len(rituals) :
          /\ rituals[j] \notin LegacyRituals
          /\ {rituals[j].emotions.items[i].intensity :
                 i \in 1..Len(rituals[j].emotions.items)} = {0, 100}

====
